---- MODULE Spec2Model ----
(***************************************************************************)
(* Savari ticketing backend: the Convex tables of convex/schema.ts and the *)
(* mutations of convex/operators.ts, convex/members.ts, convex/routes.ts,  *)
(* convex/passengers.ts and convex/trips.ts.                               *)
(*                                                                         *)
(* Every mutation is one action: Convex runs a mutation handler as a       *)
(* single serializable transaction, so a handler that throws writes        *)
(* nothing and a handler that returns commits all its writes at once.      *)
(* For a handler f, fResult(caller, args) is the message of the Error the  *)
(* call throws in the current state, or what it returns; the action f      *)
(* applies the writes of a call that does not throw.                       *)
(*                                                                         *)
(* A table is the set of its rows; a row carries its _id in the field id.  *)
(* Ids are handed out per table by a counter and never reused, so the      *)
(* order of ids is the order of insertion (_creationTime).  Fields that no *)
(* handler reads back (email, description, scannedAt, every createdAt, and *)
(* the names of operators, members and routes) are left out of the rows.   *)
(***************************************************************************)
EXTENDS Integers, FiniteSets, Sequences, TLC

\* ---------------------------------------------------------------- bounds
NumUsers      == 3     \* identities known to the identity provider
NumSlugs      == 2     \* slugs a caller may ask for
MaxInvites    == 2     \* invites ever created
MaxRoutes     == 1     \* routes ever created
MaxPassengers == 2     \* passengers ever created
MaxTrips      == 2     \* trip sessions ever started
MaxTick       == 2     \* clock readings taken one invite lifetime after the first
NumNames      == 2     \* names a passenger may be given
MaxResends    == 1     \* ticket emails ever sent again

\* ------------------------------------------------------------- constants
\* 7 * 24 * 60 * 60 * 1000 ms, the lifetime of an invite
InviteTTL == 604800000

Users   == 1..NumUsers
NoUser  == 0                    \* getAuthUser(ctx) returned null
Callers == Users \cup {NoUser}
Unset   == 0                    \* an optional field that is absent; Date.now() > 0
Slugs   == 1..NumSlugs
\* the role argument of createInvite taking any role of a member
InviteRolesAny == {"driver", "business", "operator"}
\* v.union(v.literal("driver"), v.literal("business"))
InviteRoles == {"driver", "business"}
Names   == 1..NumNames

\* The readings Date.now() gives: the first one, and MaxTick later ones that
\* reach and pass the expiry of an invite created at the first.
TimePoints == {1} \cup {1 + InviteTTL + k : k \in 0..(MaxTick - 1)}
LastReading == InviteTTL + MaxTick

OK == "ok"

VARIABLES
    now,            \* Date.now()
    operators,      \* table operators
    members,        \* table members
    routes,         \* table routes
    passengers,     \* table passengers
    tripSessions,   \* table tripSessions
    scans,          \* table scans
    invites,        \* table invites
    nextId,         \* per table, the next _id the database hands out
    scheduled       \* jobs enqueued with ctx.scheduler.runAfter, each with its state

tables == <<operators, members, routes, passengers, tripSessions, scans, invites>>
vars   == <<now, operators, members, routes, passengers, tripSessions, scans,
           invites, nextId, scheduled>>

TableNames == {"operators", "members", "routes", "passengers", "tripSessions",
               "scans", "invites"}

\* ---------------------------------------------------------- db primitives
\* ctx.db.get(id): the row with that id, present or not
Has(table, id) == \E r \in table : r.id = id
Get(table, id) == CHOOSE r \in table : r.id = id

\* .first() of an index range: the earliest inserted row of the range
First(rows) == CHOOSE r \in rows : \A q \in rows : r.id <= q.id

\* members.withIndex("by_user", eq userId)
MembersByUser(u) == {m \in members : m.userId = u}
\* members.withIndex("by_operator_user", eq operatorId, eq userId)
MembersByOperatorUser(o, u) == {m \in members : m.operatorId = o /\ m.userId = u}
\* operators.withIndex("by_slug") / ("by_owner")
OperatorsBySlug(s)  == {o \in operators : o.slug = s}
OperatorsByOwner(u) == {o \in operators : o.ownerId = u}
\* invites.withIndex("by_token")
InvitesByToken(t) == {i \in invites : i.token = t}
\* passengers.withIndex("by_qr")
PassengersByQr(q) == {p \in passengers : p.qrCode = q}
\* the driver's trips looked up without the status key of the index
TripsOfDriverAnyStatus(u) == {t \in tripSessions : t.driverId = u}
\* tripSessions.withIndex("by_driver_status", eq driverId, eq status "active")
ActiveTripsOf(u) == {t \in tripSessions : t.driverId = u /\ t.status = "active"}
\* the duplicate lookup without its filter on passengerId
ScansOfAnyPassenger(tripId, passengerId) == {s \in scans : s.tripSessionId = tripId}
\* scans.withIndex("by_trip").filter(passengerId = p)
ScansOf(tripId, passengerId) ==
    {s \in scans : s.tripSessionId = tripId /\ s.passengerId = passengerId}

\* .collect(): the rows of an index range as a list, in index order, which
\* within equal keys is the order of insertion
Collect(rows) ==
    [k \in 1..Cardinality(rows) |->
        CHOOSE r \in rows : Cardinality({q \in rows : q.id < r.id}) = k - 1]

Insert(table, row) == table \cup {row}
Delete(table, id)  == {r \in table : r.id # id}
Patch(table, id, f, val) ==
    {IF r.id = id THEN [r EXCEPT ![f] = val] ELSE r : r \in table}

Bump(name) == [nextId EXCEPT ![name] = @ + 1]

\* ---------------------------------------------------------------- scheduler
\* a job of the scheduler: the action to run, the token or QR code among its
\* arguments, and its state (pending, then success or failed)
Job(id, fn, key) == [id |-> id, fn |-> fn, key |-> key, state |-> "pending"]

\* jobs are kept once they have run, so the next id is the count plus one
NewJob(fn, key) == Job(Cardinality(scheduled) + 1, fn, key)

\* the job enqueued whatever the checks say, as by a handler that reports a
\* failure without throwing
ScheduledBeforeChecks(res, fn, key) == scheduled \cup {NewJob(fn, key)}

\* ctx.scheduler.runAfter(0, ...) is the last statement of its handler: it is
\* reached only when no check has thrown
ScheduledAfter(res, fn, key) ==
    IF res = OK THEN scheduled \cup {NewJob(fn, key)} ELSE scheduled

\* ------------------------------------------------------------ role checks
\* requireOperatorRole / requireDriverRole / requireBusinessRole
RequireRole(u, role, msg) ==
    IF u = NoUser THEN "Not authenticated"
    ELSE IF MembersByUser(u) = {} \/ First(MembersByUser(u)).role # role THEN msg
    ELSE OK

requireOperatorRole(u) == RequireRole(u, "operator", "Only operators can perform this action")
requireDriverRole(u)   == RequireRole(u, "driver", "Only drivers can perform this action")
requireBusinessRole(u) == RequireRole(u, "business", "Only businesses can perform this action")

Membership(u) == First(MembersByUser(u))

\* requireMembership(ctx, operatorId)
requireMembership(u, operatorId) ==
    IF u = NoUser THEN "Not authenticated"
    ELSE IF MembersByOperatorUser(operatorId, u) = {} THEN "Not a member of this operator"
    ELSE OK

\* ------------------------------------------------------------------ Init
Init ==
    /\ now = 1
    /\ operators = {}
    /\ members = {}
    /\ routes = {}
    /\ passengers = {}
    /\ tripSessions = {}
    /\ scans = {}
    /\ invites = {}
    /\ nextId = [n \in TableNames |-> 1]
    /\ scheduled = {}

\* a clock that may also be set back
TickAnyway(upTo) ==
    /\ \E t \in TimePoints : t # now /\ t <= upTo /\ now' = t
    /\ UNCHANGED <<tables, nextId, scheduled>>

\* Date.now() never goes backwards; the clock moves on to a later reading
\* no later than upTo
Tick(upTo) ==
    /\ \E t \in TimePoints : t > now /\ t <= upTo /\ now' = t
    /\ UNCHANGED <<tables, nextId, scheduled>>

\* ------------------------------------------------------- operators.create
\* create without the by_slug lookup
createOperatorResultNoSlugCheck(u, slug) ==
    IF u = NoUser THEN "Not authenticated"
    ELSE IF OperatorsByOwner(u) # {} THEN "You already own an operator"
    ELSE OK

createOperatorResult(u, slug) ==
    IF u = NoUser THEN "Not authenticated"
    ELSE IF OperatorsBySlug(slug) # {} THEN "Slug already taken"
    ELSE IF OperatorsByOwner(u) # {} THEN "You already own an operator"
    ELSE OK

createOperator(u, slug) ==
    LET res == createOperatorResult(u, slug)
        oid == nextId.operators
    IN  /\ IF res = OK
           THEN /\ operators' = Insert(operators, [id |-> oid, slug |-> slug, ownerId |-> u])
                /\ members' = Insert(members, [id |-> nextId.members, operatorId |-> oid,
                                               userId |-> u, role |-> "operator"])
                /\ nextId' = [nextId EXCEPT !.operators = @ + 1, !.members = @ + 1]
           ELSE UNCHANGED <<operators, members, nextId>>
        /\ UNCHANGED <<now, routes, passengers, tripSessions, scans, invites, scheduled>>

\* ---------------------------------------------------- members.createInvite
\* nanoid(32) gives a token no other invite carries
NewToken == nextId.invites

createInviteResult(u, operatorId) ==
    IF requireOperatorRole(u) # OK THEN requireOperatorRole(u)
    ELSE IF Membership(u).operatorId # operatorId THEN "Cannot invite to a different operator"
    ELSE IF ~Has(operators, operatorId) THEN "Operator not found"
    ELSE OK

createInvite(u, operatorId, role) ==
    LET res == createInviteResult(u, operatorId)
        iid == nextId.invites
    IN  /\ res = OK => iid <= MaxInvites
        /\ IF res = OK
           THEN /\ invites' = Insert(invites,
                        [id |-> iid, operatorId |-> operatorId, role |-> role,
                         token |-> NewToken,
                         expiresAt |-> now + InviteTTL, usedAt |-> Unset])
                /\ nextId' = Bump("invites")
           ELSE UNCHANGED <<invites, nextId>>
        /\ scheduled' = ScheduledAfter(res, "sendInviteEmail", NewToken)
        /\ UNCHANGED <<now, operators, members, routes, passengers, tripSessions, scans>>

\* ------------------------------------------------ members.getInviteByToken
\* getInviteByToken turning away an invite at the very time it expires
getInviteByTokenStrict(token) ==
    IF InvitesByToken(token) = {} THEN <<>>
    ELSE IF First(InvitesByToken(token)).usedAt # Unset THEN <<>>
    ELSE IF First(InvitesByToken(token)).expiresAt <= now THEN <<>>
    ELSE <<[invite |-> First(InvitesByToken(token)),
            operator |-> {o \in operators : o.id = First(InvitesByToken(token)).operatorId}]>>

\* what getInviteByToken returns: the empty list for null, else the invite
\* with ctx.db.get(invite.operatorId), given as the set of rows found
getInviteByToken(token) ==
    IF InvitesByToken(token) = {} THEN <<>>
    ELSE IF First(InvitesByToken(token)).usedAt # Unset THEN <<>>
    ELSE IF First(InvitesByToken(token)).expiresAt < now THEN <<>>
    ELSE <<[invite |-> First(InvitesByToken(token)),
            operator |-> {o \in operators : o.id = First(InvitesByToken(token)).operatorId}]>>

\* ---------------------------------------------------- members.acceptInvite
\* acceptInvite without the check of usedAt
acceptInviteResultIgnoresUsed(u, token) ==
    IF u = NoUser THEN "Not authenticated"
    ELSE IF InvitesByToken(token) = {} THEN "Invalid invite"
    ELSE IF First(InvitesByToken(token)).expiresAt < now THEN "Invite expired"
    ELSE IF MembersByUser(u) # {} THEN "You are already a member of an operator"
    ELSE OK

\* acceptInvite without the check of expiresAt
acceptInviteResultNoExpiry(u, token) ==
    IF u = NoUser THEN "Not authenticated"
    ELSE IF InvitesByToken(token) = {} THEN "Invalid invite"
    ELSE IF First(InvitesByToken(token)).usedAt # Unset THEN "Invite already used"
    ELSE IF MembersByUser(u) # {} THEN "You are already a member of an operator"
    ELSE OK

\* acceptInvite without the lookup of the caller's existing membership
acceptInviteResultNoMemberCheck(u, token) ==
    IF u = NoUser THEN "Not authenticated"
    ELSE IF InvitesByToken(token) = {} THEN "Invalid invite"
    ELSE IF First(InvitesByToken(token)).usedAt # Unset THEN "Invite already used"
    ELSE IF First(InvitesByToken(token)).expiresAt < now THEN "Invite expired"
    ELSE OK

acceptInviteResult(u, token) ==
    IF u = NoUser THEN "Not authenticated"
    ELSE IF InvitesByToken(token) = {} THEN "Invalid invite"
    ELSE IF First(InvitesByToken(token)).usedAt # Unset THEN "Invite already used"
    ELSE IF First(InvitesByToken(token)).expiresAt < now THEN "Invite expired"
    ELSE IF MembersByUser(u) # {} THEN "You are already a member of an operator"
    ELSE OK

\* the invite left as it was
MarkUsedNot(invite) == invites

\* ctx.db.patch(invite._id, { usedAt: Date.now() })
MarkUsed(invite) == Patch(invites, invite.id, "usedAt", now)

acceptInvite(u, token) ==
    LET res == acceptInviteResult(u, token)
        invite == First(InvitesByToken(token))
    IN  /\ IF res = OK
           THEN /\ members' = Insert(members,
                        [id |-> nextId.members, operatorId |-> invite.operatorId,
                         userId |-> u, role |-> invite.role])
                /\ invites' = MarkUsed(invite)
                /\ nextId' = Bump("members")
           ELSE UNCHANGED <<members, invites, nextId>>
        /\ UNCHANGED <<now, operators, routes, passengers, tripSessions, scans, scheduled>>

\* ---------------------------------------------------- members.removeMember
\* removeMember without the guard on the target's role
removeMemberResultNoRoleGuard(u, memberId) ==
    IF requireOperatorRole(u) # OK THEN requireOperatorRole(u)
    ELSE IF ~Has(members, memberId) THEN "Member not found"
    ELSE IF Get(members, memberId).operatorId # Membership(u).operatorId
         THEN "Cannot remove member from a different operator"
    ELSE OK

\* removeMember without the comparison of the two operatorIds
removeMemberResultAnyOperator(u, memberId) ==
    IF requireOperatorRole(u) # OK THEN requireOperatorRole(u)
    ELSE IF ~Has(members, memberId) THEN "Member not found"
    ELSE IF Get(members, memberId).role = "operator" THEN "Cannot remove the operator"
    ELSE OK

removeMemberResult(u, memberId) ==
    IF requireOperatorRole(u) # OK THEN requireOperatorRole(u)
    ELSE IF ~Has(members, memberId) THEN "Member not found"
    ELSE IF Get(members, memberId).operatorId # Membership(u).operatorId
         THEN "Cannot remove member from a different operator"
    ELSE IF Get(members, memberId).role = "operator" THEN "Cannot remove the operator"
    ELSE OK

removeMember(u, memberId) ==
    LET res == removeMemberResult(u, memberId)
    IN  /\ IF res = OK
           THEN members' = Delete(members, memberId)
           ELSE UNCHANGED members
        /\ UNCHANGED <<now, operators, routes, passengers, tripSessions, scans, invites,
                       nextId, scheduled>>

\* ---------------------------------------------------- members.deleteInvite
deleteInviteResult(u, inviteId) ==
    IF requireOperatorRole(u) # OK THEN requireOperatorRole(u)
    ELSE IF ~Has(invites, inviteId) THEN "Invite not found"
    ELSE IF Get(invites, inviteId).operatorId # Membership(u).operatorId
         THEN "Cannot delete invite from a different operator"
    ELSE OK

deleteInvite(u, inviteId) ==
    LET res == deleteInviteResult(u, inviteId)
    IN  /\ IF res = OK
           THEN invites' = Delete(invites, inviteId)
           ELSE UNCHANGED invites
        /\ UNCHANGED <<now, operators, members, routes, passengers, tripSessions, scans,
                       nextId, scheduled>>

\* ----------------------------------------------------------- routes.create
createRouteResult(u, operatorId) ==
    IF requireOperatorRole(u) # OK THEN requireOperatorRole(u)
    ELSE IF Membership(u).operatorId # operatorId
         THEN "Cannot create route for a different operator"
    ELSE OK

createRoute(u, operatorId) ==
    LET res == createRouteResult(u, operatorId)
        rid == nextId.routes
    IN  /\ res = OK => rid <= MaxRoutes
        /\ IF res = OK
           THEN /\ routes' = Insert(routes, [id |-> rid, operatorId |-> operatorId,
                                             isActive |-> TRUE])
                /\ nextId' = Bump("routes")
           ELSE UNCHANGED <<routes, nextId>>
        /\ UNCHANGED <<now, operators, members, passengers, tripSessions, scans, invites,
                       scheduled>>

\* -------------------------------------------------- routes.update / remove
updateRouteResult(u, routeId) ==
    IF requireOperatorRole(u) # OK THEN requireOperatorRole(u)
    ELSE IF ~Has(routes, routeId) THEN "Route not found"
    ELSE IF Get(routes, routeId).operatorId # Membership(u).operatorId
         THEN "Cannot update route for a different operator"
    ELSE OK

updateRoute(u, routeId, isActive) ==
    LET res == updateRouteResult(u, routeId)
    IN  /\ IF res = OK
           THEN routes' = Patch(routes, routeId, "isActive", isActive)
           ELSE UNCHANGED routes
        /\ UNCHANGED <<now, operators, members, passengers, tripSessions, scans, invites,
                       nextId, scheduled>>

removeRouteResult(u, routeId) ==
    IF requireOperatorRole(u) # OK THEN requireOperatorRole(u)
    ELSE IF ~Has(routes, routeId) THEN "Route not found"
    ELSE IF Get(routes, routeId).operatorId # Membership(u).operatorId
         THEN "Cannot delete route for a different operator"
    ELSE OK

removeRoute(u, routeId) ==
    LET res == removeRouteResult(u, routeId)
    IN  /\ IF res = OK
           THEN routes' = Delete(routes, routeId)
           ELSE UNCHANGED routes
        /\ UNCHANGED <<now, operators, members, passengers, tripSessions, scans, invites,
                       nextId, scheduled>>

\* routes.get: the rows returned (none for null), when the call does not throw
routesGetResult(u, routeId) ==
    IF ~Has(routes, routeId) THEN OK
    ELSE requireMembership(u, Get(routes, routeId).operatorId)

routesGet(u, routeId) ==
    IF routesGetResult(u, routeId) = OK THEN {r \in routes : r.id = routeId} ELSE {}

\* ------------------------------------------------------- passengers.create
\* `SAVARI-${nanoid(12)}` gives a code no other passenger carries
NewQrCode == nextId.passengers

createPassengerResult(u, operatorId) ==
    IF requireBusinessRole(u) # OK THEN requireBusinessRole(u)
    ELSE IF Membership(u).operatorId # operatorId
         THEN "Cannot add passenger to a different operator"
    ELSE IF ~Has(operators, operatorId) THEN "Operator not found"
    ELSE OK

createPassenger(u, operatorId, name) ==
    LET res == createPassengerResult(u, operatorId)
        pid == nextId.passengers
    IN  /\ res = OK => pid <= MaxPassengers
        /\ IF res = OK
           THEN /\ passengers' = Insert(passengers,
                        [id |-> pid, operatorId |-> operatorId, businessId |-> u,
                         name |-> name, qrCode |-> NewQrCode, archivedAt |-> Unset])
                /\ nextId' = Bump("passengers")
           ELSE UNCHANGED <<passengers, nextId>>
        /\ scheduled' = ScheduledAfter(res, "sendTicketEmail", NewQrCode)
        /\ UNCHANGED <<now, operators, members, routes, tripSessions, scans, invites>>

\* --------------------------------------------- passengers.update / archive
updatePassengerResult(u, passengerId) ==
    IF requireBusinessRole(u) # OK THEN requireBusinessRole(u)
    ELSE IF ~Has(passengers, passengerId) THEN "Passenger not found"
    ELSE IF Get(passengers, passengerId).businessId # u
         THEN "Cannot update another business's passenger"
    ELSE OK

updatePassenger(u, passengerId, name) ==
    LET res == updatePassengerResult(u, passengerId)
    IN  /\ IF res = OK
           THEN passengers' = Patch(passengers, passengerId, "name", name)
           ELSE UNCHANGED passengers
        /\ UNCHANGED <<now, operators, members, routes, tripSessions, scans, invites,
                       nextId, scheduled>>

archivePassengerResult(u, passengerId) ==
    IF requireBusinessRole(u) # OK THEN requireBusinessRole(u)
    ELSE IF ~Has(passengers, passengerId) THEN "Passenger not found"
    ELSE IF Get(passengers, passengerId).businessId # u
         THEN "Cannot archive another business's passenger"
    ELSE OK

archivePassenger(u, passengerId) ==
    LET res == archivePassengerResult(u, passengerId)
    IN  /\ IF res = OK
           THEN passengers' = Patch(passengers, passengerId, "archivedAt", now)
           ELSE UNCHANGED passengers
        /\ UNCHANGED <<now, operators, members, routes, tripSessions, scans, invites,
                       nextId, scheduled>>

\* ------------------------------------- passengers.list / get / getByQrCode
passengersListResult(u, operatorId) == requireMembership(u, operatorId)

\* the index range list reads: by_business for a business member, by_operator
\* for any other member
passengersListRange(u, operatorId) ==
    IF First(MembersByOperatorUser(operatorId, u)).role = "business"
    THEN {p \in passengers : p.operatorId = operatorId /\ p.businessId = u}
    ELSE {p \in passengers : p.operatorId = operatorId}

\* query.paginate({ cursor, numItems }): the numItems rows of the range that
\* follow the cursor; a cursor is the id of the last row of the page before,
\* 0 for null
Paginate(rows, cursor, numItems) ==
    {p \in rows : /\ p.id > cursor
                  /\ Cardinality({q \in rows : q.id > cursor /\ q.id < p.id}) < numItems}

\* list returning results.page as it is, whatever includeArchived says
passengersListUnfiltered(u, operatorId, cursor, numItems, includeArchived) ==
    IF passengersListResult(u, operatorId) # OK THEN {}
    ELSE Paginate(passengersListRange(u, operatorId), cursor, numItems)

\* the page list returns; includeArchived left out counts as FALSE
passengersList(u, operatorId, cursor, numItems, includeArchived) ==
    IF passengersListResult(u, operatorId) # OK THEN {}
    ELSE LET page == Paginate(passengersListRange(u, operatorId), cursor, numItems)
         IN  IF includeArchived THEN page
             ELSE {p \in page : p.archivedAt = Unset}

passengersGetResult(u, passengerId) ==
    IF ~Has(passengers, passengerId) THEN OK
    ELSE requireMembership(u, Get(passengers, passengerId).operatorId)

passengersGet(u, passengerId) ==
    IF passengersGetResult(u, passengerId) = OK
    THEN {p \in passengers : p.id = passengerId} ELSE {}

\* getByQrCode: the by_qr lookup, returned as it is
getByQrCode(u, qrCode) ==
    IF PassengersByQr(qrCode) = {} THEN {} ELSE {First(PassengersByQr(qrCode))}

\* ------------------------------------------- passengers.resendTicketEmail
resendTicketEmailResult(u, passengerId) ==
    IF requireBusinessRole(u) # OK THEN requireBusinessRole(u)
    ELSE IF ~Has(passengers, passengerId) THEN "Passenger not found"
    ELSE IF Get(passengers, passengerId).businessId # u
         THEN "Cannot resend email for another business's passenger"
    ELSE IF ~Has(operators, Get(passengers, passengerId).operatorId) THEN "Operator not found"
    ELSE OK

resendTicketEmail(u, passengerId) ==
    LET res == resendTicketEmailResult(u, passengerId)
        qrCodeValue == IF Has(passengers, passengerId)
                       THEN Get(passengers, passengerId).qrCode ELSE Unset
    IN  /\ res = OK => Cardinality({j \in scheduled : j.fn = "sendTicketEmail"})
                            < Cardinality(passengers) + MaxResends
        /\ scheduled' = ScheduledAfter(res, "sendTicketEmail", qrCodeValue)
        /\ UNCHANGED <<now, tables, nextId>>

\* ---------------------------------- emails.sendInviteEmail / sendTicketEmail
\* a failed job that takes back the row its mutation inserted
PassengersAfterJobRollback(job, outcome) ==
    IF outcome = "failed" /\ job.fn = "sendTicketEmail"
    THEN {p \in passengers : p.qrCode # job.key}
    ELSE passengers

\* both actions render and send; their handlers run no query and no mutation
PassengersAfterJob(job, outcome) == passengers
InvitesAfterJob(job, outcome) == invites

\* the scheduler runs a pending job; the send succeeds or throws
runJob(jobId, outcome) ==
    /\ \E job \in scheduled :
          /\ job.id = jobId
          /\ job.state = "pending"
          /\ scheduled' = (scheduled \ {job}) \cup {[job EXCEPT !.state = outcome]}
          /\ passengers' = PassengersAfterJob(job, outcome)
          /\ invites' = InvitesAfterJob(job, outcome)
    /\ UNCHANGED <<now, operators, members, routes, tripSessions, scans, nextId>>

\* --------------------------------------------------------- trips.startTrip
\* startTrip without the lookup of the driver's active trip
startTripResultNoActiveCheck(u, routeId) ==
    IF requireDriverRole(u) # OK THEN requireDriverRole(u)
    ELSE IF ~Has(routes, routeId) THEN "Route not found"
    ELSE IF Get(routes, routeId).operatorId # Membership(u).operatorId
         THEN "Cannot start trip for a different operator's route"
    ELSE OK

\* startTrip without the comparison of the route's operator
startTripResultAnyOperator(u, routeId) ==
    IF requireDriverRole(u) # OK THEN requireDriverRole(u)
    ELSE IF ~Has(routes, routeId) THEN "Route not found"
    ELSE IF ActiveTripsOf(u) # {} THEN "You already have an active trip. End it first."
    ELSE OK

startTripResult(u, routeId) ==
    IF requireDriverRole(u) # OK THEN requireDriverRole(u)
    ELSE IF ~Has(routes, routeId) THEN "Route not found"
    ELSE IF Get(routes, routeId).operatorId # Membership(u).operatorId
         THEN "Cannot start trip for a different operator's route"
    ELSE IF ActiveTripsOf(u) # {} THEN "You already have an active trip. End it first."
    ELSE OK

\* the row inserted with the wrong status literal
NewTripSessionCompleted(u, routeId) ==
    [id |-> nextId.tripSessions, operatorId |-> Membership(u).operatorId,
     routeId |-> routeId, driverId |-> u, startedAt |-> now,
     endedAt |-> Unset, status |-> "completed"]

\* the row startTrip inserts
NewTripSession(u, routeId) ==
    [id |-> nextId.tripSessions, operatorId |-> Membership(u).operatorId,
     routeId |-> routeId, driverId |-> u, startedAt |-> now,
     endedAt |-> Unset, status |-> "active"]

startTrip(u, routeId) ==
    LET res == startTripResult(u, routeId)
        tid == nextId.tripSessions
    IN  /\ res = OK => tid <= MaxTrips
        /\ IF res = OK
           THEN /\ tripSessions' = Insert(tripSessions, NewTripSession(u, routeId))
                /\ nextId' = Bump("tripSessions")
           ELSE UNCHANGED <<tripSessions, nextId>>
        /\ UNCHANGED <<now, operators, members, routes, passengers, scans, invites,
                       scheduled>>

\* ----------------------------------------------------------- trips.endTrip
\* endTrip without the check of the trip's status
endTripResultNoStatusCheck(u, tripSessionId) ==
    IF requireDriverRole(u) # OK THEN requireDriverRole(u)
    ELSE IF ~Has(tripSessions, tripSessionId) THEN "Trip not found"
    ELSE IF Get(tripSessions, tripSessionId).driverId # u
         THEN "Cannot end another driver's trip"
    ELSE OK

\* endTrip asking for a signed-in caller only, not for the driver role
endTripResultNoRoleCheck(u, tripSessionId) ==
    IF u = NoUser THEN "Not authenticated"
    ELSE IF ~Has(tripSessions, tripSessionId) THEN "Trip not found"
    ELSE IF Get(tripSessions, tripSessionId).driverId # u
         THEN "Cannot end another driver's trip"
    ELSE IF Get(tripSessions, tripSessionId).status # "active" THEN "Trip is not active"
    ELSE OK

\* endTrip without the comparison of the trip's driver
endTripResultAnyDriver(u, tripSessionId) ==
    IF requireDriverRole(u) # OK THEN requireDriverRole(u)
    ELSE IF ~Has(tripSessions, tripSessionId) THEN "Trip not found"
    ELSE IF Get(tripSessions, tripSessionId).status # "active" THEN "Trip is not active"
    ELSE OK

endTripResult(u, tripSessionId) ==
    IF requireDriverRole(u) # OK THEN requireDriverRole(u)
    ELSE IF ~Has(tripSessions, tripSessionId) THEN "Trip not found"
    ELSE IF Get(tripSessions, tripSessionId).driverId # u
         THEN "Cannot end another driver's trip"
    ELSE IF Get(tripSessions, tripSessionId).status # "active" THEN "Trip is not active"
    ELSE OK

endTrip(u, tripSessionId) ==
    LET res == endTripResult(u, tripSessionId)
    IN  /\ IF res = OK
           THEN tripSessions' =
                    Patch(Patch(tripSessions, tripSessionId, "status", "completed"),
                          tripSessionId, "endedAt", now)
           ELSE UNCHANGED tripSessions
        /\ UNCHANGED <<now, operators, members, routes, passengers, scans, invites,
                       nextId, scheduled>>

\* ----------------------------------------------------- trips.getActiveTrip
\* { trip, route, scans }: route is ctx.db.get(trip.routeId), given here as
\* the set of rows found (empty for null); scans is the by_trip range
\* collected, each scan with ctx.db.get(scan.passengerId) likewise
TripView(trip) ==
    LET tripScans == Collect({s \in scans : s.tripSessionId = trip.id})
    IN  [trip |-> trip,
         route |-> {r \in routes : r.id = trip.routeId},
         scans |-> [k \in DOMAIN tripScans |->
                       [scan |-> tripScans[k],
                        passenger |-> {p \in passengers : p.id = tripScans[k].passengerId}]]]

\* getActiveTrip reading the driver's trips without the status key
getActiveTripAnyStatus(u) ==
    IF u = NoUser \/ TripsOfDriverAnyStatus(u) = {} THEN <<>>
    ELSE <<TripView(First(TripsOfDriverAnyStatus(u)))>>

\* what getActiveTrip returns: the empty list for null, else the one view
getActiveTrip(u) ==
    IF u = NoUser \/ ActiveTripsOf(u) = {} THEN <<>>
    ELSE <<TripView(First(ActiveTripsOf(u)))>>

\* ----------------------------------------------------- trips.scanPassenger
\* scanPassenger without the duplicate lookup
scanPassengerResultNoDuplicateCheck(u, tripSessionId, qrCode) ==
    IF requireDriverRole(u) # OK THEN requireDriverRole(u)
    ELSE IF ~Has(tripSessions, tripSessionId) THEN "Trip not found"
    ELSE IF Get(tripSessions, tripSessionId).driverId # u
         THEN "Cannot scan for another driver's trip"
    ELSE IF Get(tripSessions, tripSessionId).status # "active" THEN "Trip is not active"
    ELSE IF PassengersByQr(qrCode) = {} THEN "Invalid QR code"
    ELSE IF First(PassengersByQr(qrCode)).operatorId # Membership(u).operatorId
         THEN "Passenger belongs to a different operator"
    ELSE "success"

\* scanPassenger without the check of the trip's status
scanPassengerResultNoStatusCheck(u, tripSessionId, qrCode) ==
    IF requireDriverRole(u) # OK THEN requireDriverRole(u)
    ELSE IF ~Has(tripSessions, tripSessionId) THEN "Trip not found"
    ELSE IF Get(tripSessions, tripSessionId).driverId # u
         THEN "Cannot scan for another driver's trip"
    ELSE IF PassengersByQr(qrCode) = {} THEN "Invalid QR code"
    ELSE IF First(PassengersByQr(qrCode)).operatorId # Membership(u).operatorId
         THEN "Passenger belongs to a different operator"
    ELSE IF ScansOf(tripSessionId, First(PassengersByQr(qrCode)).id) # {}
         THEN "already_scanned"
    ELSE "success"

\* scanPassenger turning away the QR code of an archived passenger
scanPassengerResultActiveOnly(u, tripSessionId, qrCode) ==
    IF requireDriverRole(u) # OK THEN requireDriverRole(u)
    ELSE IF ~Has(tripSessions, tripSessionId) THEN "Trip not found"
    ELSE IF Get(tripSessions, tripSessionId).driverId # u
         THEN "Cannot scan for another driver's trip"
    ELSE IF Get(tripSessions, tripSessionId).status # "active" THEN "Trip is not active"
    ELSE IF PassengersByQr(qrCode) = {} THEN "Invalid QR code"
    ELSE IF First(PassengersByQr(qrCode)).archivedAt # Unset THEN "Invalid QR code"
    ELSE IF First(PassengersByQr(qrCode)).operatorId # Membership(u).operatorId
         THEN "Passenger belongs to a different operator"
    ELSE IF ScansOf(tripSessionId, First(PassengersByQr(qrCode)).id) # {}
         THEN "already_scanned"
    ELSE "success"

scanPassengerResult(u, tripSessionId, qrCode) ==
    IF requireDriverRole(u) # OK THEN requireDriverRole(u)
    ELSE IF ~Has(tripSessions, tripSessionId) THEN "Trip not found"
    ELSE IF Get(tripSessions, tripSessionId).driverId # u
         THEN "Cannot scan for another driver's trip"
    ELSE IF Get(tripSessions, tripSessionId).status # "active" THEN "Trip is not active"
    ELSE IF PassengersByQr(qrCode) = {} THEN "Invalid QR code"
    ELSE IF First(PassengersByQr(qrCode)).operatorId # Membership(u).operatorId
         THEN "Passenger belongs to a different operator"
    ELSE IF ScansOf(tripSessionId, First(PassengersByQr(qrCode)).id) # {}
         THEN "already_scanned"
    ELSE "success"

\* what a scanPassenger call that does not throw returns
scanPassengerReturn(u, tripSessionId, qrCode) ==
    [passenger |-> First(PassengersByQr(qrCode)),
     status |-> scanPassengerResult(u, tripSessionId, qrCode)]

\* the row scanPassenger inserts; its scannedAt, Date.now(), is read by no
\* mutation or query modelled here and is left out of the row
NewScan(u, tripSessionId, qrCode) ==
    [id |-> nextId.scans, operatorId |-> Membership(u).operatorId,
     tripSessionId |-> tripSessionId, passengerId |-> First(PassengersByQr(qrCode)).id,
     scannedBy |-> u]

scanPassenger(u, tripSessionId, qrCode) ==
    LET res == scanPassengerResult(u, tripSessionId, qrCode)
    IN  /\ IF res = "success"
           THEN /\ scans' = Insert(scans, NewScan(u, tripSessionId, qrCode))
                /\ nextId' = Bump("scans")
           ELSE UNCHANGED <<scans, nextId>>
        /\ UNCHANGED <<now, operators, members, routes, passengers, tripSessions, invites,
                       scheduled>>

\* ------------------------------------------------------------------- Next
\* ids a caller may name: every id a table can hold, present or not
MemberIds    == 1..(NumSlugs + MaxInvites)
OperatorIds  == 1..NumSlugs
InviteIds    == 1..MaxInvites
RouteIds     == 1..MaxRoutes
TripIds      == 1..MaxTrips
QrCodes      == 1..MaxPassengers
PassengerIds == 1..MaxPassengers
JobIds       == 1..(MaxInvites + MaxPassengers + MaxResends)
JobOutcomes  == {"success", "failed"}

Next ==
    \/ Tick(LastReading)
    \/ \E u \in Callers, s \in Slugs : createOperator(u, s)
    \/ \E u \in Callers, o \in OperatorIds, r \in InviteRoles : createInvite(u, o, r)
    \/ \E u \in Callers, t \in InviteIds : acceptInvite(u, t)
    \/ \E u \in Callers, m \in MemberIds : removeMember(u, m)
    \/ \E u \in Callers, i \in InviteIds : deleteInvite(u, i)
    \/ \E u \in Callers, o \in OperatorIds : createRoute(u, o)
    \/ \E u \in Callers, r \in RouteIds, a \in BOOLEAN : updateRoute(u, r, a)
    \/ \E u \in Callers, r \in RouteIds : removeRoute(u, r)
    \/ \E u \in Callers, o \in OperatorIds, n \in Names : createPassenger(u, o, n)
    \/ \E u \in Callers, p \in PassengerIds, n \in Names : updatePassenger(u, p, n)
    \/ \E u \in Callers, p \in PassengerIds : archivePassenger(u, p)
    \/ \E u \in Callers, p \in PassengerIds : resendTicketEmail(u, p)
    \/ \E j \in JobIds, o \in JobOutcomes : runJob(j, o)
    \/ \E u \in Callers, r \in RouteIds : startTrip(u, r)
    \/ \E u \in Callers, t \in TripIds : endTrip(u, t)
    \/ \E u \in Callers, t \in TripIds, q \in QrCodes : scanPassenger(u, t, q)

Spec == Init /\ [][Next]_vars

\* Tenant and membership store alone: onboarding, invites and removal,
\* from the empty store.
NextMembers ==
    \/ Tick(LastReading)
    \/ \E u \in Callers, s \in Slugs : createOperator(u, s)
    \/ \E u \in Callers, o \in OperatorIds, r \in InviteRoles : createInvite(u, o, r)
    \/ \E u \in Callers, t \in InviteIds : acceptInvite(u, t)
    \/ \E u \in Callers, m \in MemberIds : removeMember(u, m)
    \/ \E u \in Callers, i \in InviteIds : deleteInvite(u, i)

SpecMembers == Init /\ [][NextMembers]_vars

\* Trip and check-in workflow.  The store is the one reached from Init by
\* createOperator(1, 1), createInvite(1, 1, "driver"),
\* createInvite(1, 1, "business") and createRoute(1, 1) at the first clock
\* reading: user 1 runs operator 1, both invites are open, route 1 exists.
\* Names play no part in check-in: every passenger is given the first.
InitTrips ==
    /\ now = 1
    /\ operators = {[id |-> 1, slug |-> 1, ownerId |-> 1]}
    /\ members = {[id |-> 1, operatorId |-> 1, userId |-> 1, role |-> "operator"]}
    /\ routes = {[id |-> 1, operatorId |-> 1, isActive |-> TRUE]}
    /\ passengers = {}
    /\ tripSessions = {}
    /\ scans = {}
    /\ invites = {[id |-> 1, operatorId |-> 1, role |-> "driver", token |-> 1,
                   expiresAt |-> 1 + InviteTTL, usedAt |-> Unset],
                  [id |-> 2, operatorId |-> 1, role |-> "business", token |-> 2,
                   expiresAt |-> 1 + InviteTTL, usedAt |-> Unset]}
    /\ nextId = [n \in TableNames |->
                    CASE n = "operators" -> 2
                      [] n = "members"   -> 2
                      [] n = "routes"    -> 2
                      [] n = "invites"   -> 3
                      [] OTHER           -> 1]
    /\ scheduled = {Job(1, "sendInviteEmail", 1),
                    Job(2, "sendInviteEmail", 2)}

NextTrips ==
    \/ Tick(1 + InviteTTL)
    \/ \E u \in Callers, s \in Slugs : createOperator(u, s)
    \/ \E u \in Callers, t \in InviteIds : acceptInvite(u, t)
    \/ \E u \in Callers, m \in MemberIds : removeMember(u, m)
    \/ \E u \in Callers, o \in OperatorIds : createPassenger(u, o, 1)
    \/ \E u \in Callers, r \in RouteIds : startTrip(u, r)
    \/ \E u \in Callers, t \in TripIds : endTrip(u, t)
    \/ \E u \in Callers, t \in TripIds, q \in QrCodes : scanPassenger(u, t, q)

SpecTrips == InitTrips /\ [][NextTrips]_vars

\* Notification jobs.  The store is the one reached from Init by
\* createOperator(1, 1) and createInvite(1, 1, "business"): user 1 runs
\* operator 1, whose first invite is open and whose invite email is pending.
InitJobs ==
    /\ now = 1
    /\ operators = {[id |-> 1, slug |-> 1, ownerId |-> 1]}
    /\ members = {[id |-> 1, operatorId |-> 1, userId |-> 1, role |-> "operator"]}
    /\ routes = {}
    /\ passengers = {}
    /\ tripSessions = {}
    /\ scans = {}
    /\ invites = {[id |-> 1, operatorId |-> 1, role |-> "business", token |-> 1,
                   expiresAt |-> 1 + InviteTTL, usedAt |-> Unset]}
    /\ nextId = [n \in TableNames |->
                    CASE n = "operators" -> 2
                      [] n = "members"   -> 2
                      [] n = "invites"   -> 2
                      [] OTHER           -> 1]
    /\ scheduled = {Job(1, "sendInviteEmail", 1)}

NextJobs ==
    \/ \E u \in Callers, o \in OperatorIds, r \in InviteRoles : createInvite(u, o, r)
    \/ \E u \in Callers, t \in InviteIds : acceptInvite(u, t)
    \/ \E u \in Callers, o \in OperatorIds : createPassenger(u, o, 1)
    \/ \E u \in Callers, p \in PassengerIds : resendTicketEmail(u, p)
    \/ \E j \in JobIds, o \in JobOutcomes : runJob(j, o)

SpecJobs == InitJobs /\ [][NextJobs]_vars

\* Passenger records of two tenants.  The store is the one reached from Init
\* by createOperator(1, 1), createOperator(2, 2), createRoute(1, 1),
\* createInvite(1, 1, "business") and createInvite(2, 2, "business") at the
\* first clock reading: users 1 and 2 each run an operator, and each
\* operator has an open invite for a business.
InitPassengers ==
    /\ now = 1
    /\ operators = {[id |-> 1, slug |-> 1, ownerId |-> 1],
                    [id |-> 2, slug |-> 2, ownerId |-> 2]}
    /\ members = {[id |-> 1, operatorId |-> 1, userId |-> 1, role |-> "operator"],
                  [id |-> 2, operatorId |-> 2, userId |-> 2, role |-> "operator"]}
    /\ routes = {[id |-> 1, operatorId |-> 1, isActive |-> TRUE]}
    /\ passengers = {}
    /\ tripSessions = {}
    /\ scans = {}
    /\ invites = {[id |-> 1, operatorId |-> 1, role |-> "business", token |-> 1,
                   expiresAt |-> 1 + InviteTTL, usedAt |-> Unset],
                  [id |-> 2, operatorId |-> 2, role |-> "business", token |-> 2,
                   expiresAt |-> 1 + InviteTTL, usedAt |-> Unset]}
    /\ nextId = [n \in TableNames |->
                    CASE n = "operators" -> 3
                      [] n = "members"   -> 3
                      [] n = "routes"    -> 2
                      [] n = "invites"   -> 3
                      [] OTHER           -> 1]
    /\ scheduled = {Job(1, "sendInviteEmail", 1),
                    Job(2, "sendInviteEmail", 2)}

NextPassengers ==
    \/ Tick(1 + InviteTTL)
    \/ \E u \in Callers, t \in InviteIds : acceptInvite(u, t)
    \/ \E u \in Callers, m \in MemberIds : removeMember(u, m)
    \/ \E u \in Callers, r \in RouteIds, a \in BOOLEAN : updateRoute(u, r, a)
    \/ \E u \in Callers, r \in RouteIds : removeRoute(u, r)
    \/ \E u \in Callers, o \in OperatorIds, n \in Names : createPassenger(u, o, n)
    \/ \E u \in Callers, p \in PassengerIds, n \in Names : updatePassenger(u, p, n)
    \/ \E u \in Callers, p \in PassengerIds : archivePassenger(u, p)

SpecPassengers == InitPassengers /\ [][NextPassengers]_vars

\* A driver who changes tenant.  The store is one the calls of
\* SpecPassengers lead to, followed by createInvite(1, 1, "driver") and
\* createInvite(2, 2, "driver"): users 1 and 2 each run an operator; user 3
\* was a business of operator 1, created passenger 1, was removed, then the
\* same at operator 2 with passenger 2; route 1 belongs to operator 1; each
\* operator has an open invite for a driver.  Four invites have been
\* created on the way, two more than createInvite is let to create above.
InitCross ==
    /\ now = 1
    /\ operators = {[id |-> 1, slug |-> 1, ownerId |-> 1],
                    [id |-> 2, slug |-> 2, ownerId |-> 2]}
    /\ members = {[id |-> 1, operatorId |-> 1, userId |-> 1, role |-> "operator"],
                  [id |-> 2, operatorId |-> 2, userId |-> 2, role |-> "operator"]}
    /\ routes = {[id |-> 1, operatorId |-> 1, isActive |-> TRUE]}
    /\ passengers = {[id |-> 1, operatorId |-> 1, businessId |-> 3, name |-> 1,
                      qrCode |-> 1, archivedAt |-> Unset],
                     [id |-> 2, operatorId |-> 2, businessId |-> 3, name |-> 1,
                      qrCode |-> 2, archivedAt |-> Unset]}
    /\ tripSessions = {}
    /\ scans = {}
    /\ invites = {[id |-> 1, operatorId |-> 1, role |-> "business", token |-> 1,
                   expiresAt |-> 1 + InviteTTL, usedAt |-> 1],
                  [id |-> 2, operatorId |-> 2, role |-> "business", token |-> 2,
                   expiresAt |-> 1 + InviteTTL, usedAt |-> 1],
                  [id |-> 3, operatorId |-> 1, role |-> "driver", token |-> 3,
                   expiresAt |-> 1 + InviteTTL, usedAt |-> Unset],
                  [id |-> 4, operatorId |-> 2, role |-> "driver", token |-> 4,
                   expiresAt |-> 1 + InviteTTL, usedAt |-> Unset]}
    /\ nextId = [n \in TableNames |->
                    CASE n = "operators"  -> 3
                      [] n = "members"    -> 5
                      [] n = "routes"     -> 2
                      [] n = "passengers" -> 3
                      [] n = "invites"    -> 5
                      [] OTHER            -> 1]
    /\ scheduled = {Job(1, "sendInviteEmail", 1),
                    Job(2, "sendInviteEmail", 2),
                    Job(3, "sendInviteEmail", 3),
                    Job(4, "sendInviteEmail", 4),
                    Job(5, "sendTicketEmail", 1),
                    Job(6, "sendTicketEmail", 2)}

\* ids a caller may name here: the store has seen two business invites and
\* two members more than a fresh one
CrossInviteIds == 1..(2 + MaxInvites)
CrossMemberIds == 1..(2 + NumSlugs + MaxInvites)

NextCross ==
    \/ Tick(1 + InviteTTL)
    \/ \E u \in Callers, t \in CrossInviteIds : acceptInvite(u, t)
    \/ \E u \in Callers, m \in CrossMemberIds : removeMember(u, m)
    \/ \E u \in Callers, r \in RouteIds : removeRoute(u, r)
    \/ \E u \in Callers, r \in RouteIds : startTrip(u, r)
    \/ \E u \in Callers, t \in TripIds : endTrip(u, t)
    \/ \E u \in Callers, t \in TripIds, q \in QrCodes : scanPassenger(u, t, q)

SpecCross == InitCross /\ [][NextCross]_vars

\* ------------------------------------------------------------------------
\* Two drivers.  With three users, two drivers of one operator and a driver of
\* another operator come from two histories, both seeded here.
\*
\* InitCrewTwoDrivers: user 1 created operator 1 with route 1 and three
\* invites; user 2 joined as a driver; user 3 joined as a business, created
\* the two passengers and was removed; the second driver invite is open.
\*
\* InitCrewFormerDriver: from there user 2 started trip 1 and scanned
\* passenger 1, was removed by user 1, created operator 2 and an invite for a
\* driver of it.
InitCrewTwoDrivers ==
    /\ now = 1
    /\ operators = {[id |-> 1, slug |-> 1, ownerId |-> 1]}
    /\ members = {[id |-> 1, operatorId |-> 1, userId |-> 1, role |-> "operator"],
                  [id |-> 2, operatorId |-> 1, userId |-> 2, role |-> "driver"]}
    /\ routes = {[id |-> 1, operatorId |-> 1, isActive |-> TRUE]}
    /\ passengers = {[id |-> 1, operatorId |-> 1, businessId |-> 3, name |-> 1,
                      qrCode |-> 1, archivedAt |-> Unset],
                     [id |-> 2, operatorId |-> 1, businessId |-> 3, name |-> 1,
                      qrCode |-> 2, archivedAt |-> Unset]}
    /\ tripSessions = {}
    /\ scans = {}
    /\ invites = {[id |-> 1, operatorId |-> 1, role |-> "driver", token |-> 1,
                   expiresAt |-> 1 + InviteTTL, usedAt |-> 1],
                  [id |-> 2, operatorId |-> 1, role |-> "business", token |-> 2,
                   expiresAt |-> 1 + InviteTTL, usedAt |-> 1],
                  [id |-> 3, operatorId |-> 1, role |-> "driver", token |-> 3,
                   expiresAt |-> 1 + InviteTTL, usedAt |-> Unset]}
    /\ nextId = [n \in TableNames |->
                    CASE n = "operators"  -> 2
                      [] n = "members"    -> 4
                      [] n = "routes"     -> 2
                      [] n = "passengers" -> 3
                      [] n = "invites"    -> 4
                      [] OTHER            -> 1]
    /\ scheduled = {Job(1, "sendInviteEmail", 1),
                    Job(2, "sendInviteEmail", 2),
                    Job(3, "sendInviteEmail", 3),
                    Job(4, "sendTicketEmail", 1),
                    Job(5, "sendTicketEmail", 2)}

InitCrewFormerDriver ==
    /\ now = 1
    /\ operators = {[id |-> 1, slug |-> 1, ownerId |-> 1],
                    [id |-> 2, slug |-> 2, ownerId |-> 2]}
    /\ members = {[id |-> 1, operatorId |-> 1, userId |-> 1, role |-> "operator"],
                  [id |-> 4, operatorId |-> 2, userId |-> 2, role |-> "operator"]}
    /\ routes = {[id |-> 1, operatorId |-> 1, isActive |-> TRUE]}
    /\ passengers = {[id |-> 1, operatorId |-> 1, businessId |-> 3, name |-> 1,
                      qrCode |-> 1, archivedAt |-> Unset],
                     [id |-> 2, operatorId |-> 1, businessId |-> 3, name |-> 1,
                      qrCode |-> 2, archivedAt |-> Unset]}
    /\ tripSessions = {[id |-> 1, operatorId |-> 1, routeId |-> 1, driverId |-> 2,
                        startedAt |-> 1, endedAt |-> Unset, status |-> "active"]}
    /\ scans = {[id |-> 1, operatorId |-> 1, tripSessionId |-> 1, passengerId |-> 1,
                 scannedBy |-> 2]}
    /\ invites = {[id |-> 1, operatorId |-> 1, role |-> "driver", token |-> 1,
                   expiresAt |-> 1 + InviteTTL, usedAt |-> 1],
                  [id |-> 2, operatorId |-> 1, role |-> "business", token |-> 2,
                   expiresAt |-> 1 + InviteTTL, usedAt |-> 1],
                  [id |-> 3, operatorId |-> 1, role |-> "driver", token |-> 3,
                   expiresAt |-> 1 + InviteTTL, usedAt |-> Unset],
                  [id |-> 4, operatorId |-> 2, role |-> "driver", token |-> 4,
                   expiresAt |-> 1 + InviteTTL, usedAt |-> Unset]}
    /\ nextId = [n \in TableNames |->
                    CASE n = "operators"    -> 3
                      [] n = "members"      -> 5
                      [] n = "routes"       -> 2
                      [] n = "passengers"   -> 3
                      [] n = "tripSessions" -> 2
                      [] n = "scans"        -> 2
                      [] n = "invites"      -> 5
                      [] OTHER              -> 1]
    /\ scheduled = {Job(1, "sendInviteEmail", 1),
                    Job(2, "sendInviteEmail", 2),
                    Job(3, "sendInviteEmail", 3),
                    Job(4, "sendTicketEmail", 1),
                    Job(5, "sendTicketEmail", 2),
                    Job(6, "sendInviteEmail", 4)}

InitCrew == InitCrewTwoDrivers \/ InitCrewFormerDriver

NextCrew ==
    \/ \E u \in Callers, t \in CrossInviteIds : acceptInvite(u, t)
    \/ \E u \in Callers, m \in CrossMemberIds : removeMember(u, m)
    \/ \E u \in Callers, r \in RouteIds : startTrip(u, r)
    \/ \E u \in Callers, t \in TripIds : endTrip(u, t)
    \/ \E u \in Callers, t \in TripIds, q \in QrCodes : scanPassenger(u, t, q)

SpecCrew == InitCrew /\ [][NextCrew]_vars

\* ------------------------------------------------------------------------
\* Archiving while trips run: operator 1 of user 1 with route 1, user 2 its
\* driver, user 3 its business with two passengers.
InitArchive ==
    /\ now = 1
    /\ operators = {[id |-> 1, slug |-> 1, ownerId |-> 1]}
    /\ members = {[id |-> 1, operatorId |-> 1, userId |-> 1, role |-> "operator"],
                  [id |-> 2, operatorId |-> 1, userId |-> 2, role |-> "driver"],
                  [id |-> 3, operatorId |-> 1, userId |-> 3, role |-> "business"]}
    /\ routes = {[id |-> 1, operatorId |-> 1, isActive |-> TRUE]}
    /\ passengers = {[id |-> 1, operatorId |-> 1, businessId |-> 3, name |-> 1,
                      qrCode |-> 1, archivedAt |-> Unset],
                     [id |-> 2, operatorId |-> 1, businessId |-> 3, name |-> 1,
                      qrCode |-> 2, archivedAt |-> Unset]}
    /\ tripSessions = {}
    /\ scans = {}
    /\ invites = {[id |-> 1, operatorId |-> 1, role |-> "driver", token |-> 1,
                   expiresAt |-> 1 + InviteTTL, usedAt |-> 1],
                  [id |-> 2, operatorId |-> 1, role |-> "business", token |-> 2,
                   expiresAt |-> 1 + InviteTTL, usedAt |-> 1]}
    /\ nextId = [n \in TableNames |->
                    CASE n = "operators"  -> 2
                      [] n = "members"    -> 4
                      [] n = "routes"     -> 2
                      [] n = "passengers" -> 3
                      [] n = "invites"    -> 3
                      [] OTHER            -> 1]
    /\ scheduled = {Job(1, "sendInviteEmail", 1),
                    Job(2, "sendInviteEmail", 2),
                    Job(3, "sendTicketEmail", 1),
                    Job(4, "sendTicketEmail", 2)}

NextArchive ==
    \/ Tick(1 + InviteTTL)
    \/ \E u \in Callers, p \in PassengerIds : archivePassenger(u, p)
    \/ \E u \in Callers, r \in RouteIds : startTrip(u, r)
    \/ \E u \in Callers, t \in TripIds : endTrip(u, t)
    \/ \E u \in Callers, t \in TripIds, q \in QrCodes : scanPassenger(u, t, q)

SpecArchive == InitArchive /\ [][NextArchive]_vars

\* ----------------------------------------------------------------------
\* Properties of the trip and check-in workflow, checked under SpecTrips
\* ----------------------------------------------------------------------
Rejected(res) == res \notin {OK, "success", "already_scanned"}

\* A call that throws leaves every variable as it was; the step formulas
\* below are about the steps that change the state, and their state parts
\* are evaluated before and after each such step, hence in every reachable
\* state.
Changed == vars' # vars

\* the caller holds a Member row with role driver and is the driver of the
\* trip, which is active
OwnsActiveTrip(u, tripId) ==
    /\ requireDriverRole(u) = OK
    /\ \E t \in tripSessions : t.id = tripId /\ t.driverId = u /\ t.status = "active"

\* the passengers carrying a QR code that belong to the caller's operator
OwnPassengers(u, qrCode) ==
    {p \in passengers : p.qrCode = qrCode /\
        \E m \in members : m.userId = u /\ m.operatorId = p.operatorId}

ScannedOnTrip(tripId, passengerId) ==
    \E s \in scans : s.tripSessionId = tripId /\ s.passengerId = passengerId

\* C1: for every driver there is at most one TripSession with that driverId
\* and status active, in every reachable state.
C1_OneActiveTripPerDriver ==
    \A t1, t2 \in tripSessions :
        (t1.driverId = t2.driverId /\ t1.status = "active" /\ t2.status = "active")
            => t1 = t2

\* a driver who ended one trip and now runs another
C1_Witness ==
    \E t1, t2 \in tripSessions :
        /\ t1.driverId = t2.driverId
        /\ t1.status = "completed"
        /\ t2.status = "active"

\* C2: there is at most one Scan row for each (tripSessionId, passengerId).
C2_OneScanPerTripAndPassenger ==
    \A s1, s2 \in scans :
        (s1.tripSessionId = s2.tripSessionId /\ s1.passengerId = s2.passengerId)
            => s1 = s2

\* one passenger checked in on two trips, and two passengers on one trip
C2_Witness ==
    /\ \E s1, s2 \in scans :
          s1.passengerId = s2.passengerId /\ s1.tripSessionId # s2.tripSessionId
    /\ \E s1, s2 \in scans :
          s1.passengerId # s2.passengerId /\ s1.tripSessionId = s2.tripSessionId

\* parts of C3
C3_State ==
    \A u \in Users, t \in TripIds, q \in QrCodes :
        (OwnsActiveTrip(u, t) /\ OwnPassengers(u, q) # {}) =>
            \E p \in OwnPassengers(u, q) :
                /\ scanPassengerReturn(u, t, q).passenger = p
                /\ scanPassengerReturn(u, t, q).status =
                       IF ScannedOnTrip(t, p.id) THEN "already_scanned" ELSE "success"

C3_Step ==
    \A u \in Callers, t \in TripIds, q \in QrCodes :
        scanPassenger(u, t, q) =>
            /\ scanPassengerResult(u, t, q) = "already_scanned" => scans' = scans
            /\ scanPassengerResult(u, t, q) = "success" =>
                  \E row \in scans' :
                      /\ row \notin scans
                      /\ scans' = scans \cup {row}
                      /\ row.tripSessionId = t
                      /\ \E p \in OwnPassengers(u, q) : row.passengerId = p.id
                      /\ ~ScannedOnTrip(t, row.passengerId)

C4_State ==
    \A u \in Callers, t \in tripSessions :
        t.status = "completed" =>
            /\ Rejected(endTripResult(u, t.id))
            /\ (requireDriverRole(u) = OK /\ t.driverId = u)
                  => endTripResult(u, t.id) = "Trip is not active"

C4_Step ==
    \A t \in tripSessions :
        (t.status = "completed" \/ t.endedAt # Unset) => t \in tripSessions'

\* C4: endTrip on a completed trip is rejected for every caller, with "Trip
\* is not active" for its driver, and no step changes an endedAt that is set.
C4_NoDoubleEnd == [][Changed => (C4_State /\ C4_State' /\ C4_Step)]_vars

\* the driver of a trip that ended at an earlier clock reading asks again
C4_Witness ==
    \E u \in Users, t \in tripSessions :
        /\ t.status = "completed"
        /\ t.endedAt < now
        /\ endTripResult(u, t.id) = "Trip is not active"

\* parts of C5
C5_Step ==
    /\ \A t \in tripSessions :
          \E t2 \in tripSessions' :
              /\ t2.id = t.id
              /\ t.status = "completed" => t2.status = "completed"
    /\ \A t2 \in tripSessions' :
          (\A t \in tripSessions : t.id # t2.id) => t2.status = "active"

\* C5: a TripSession is created active, is never deleted, and once it is
\* completed it stays completed.
C5_StatusOnlyMovesForward == [][Changed => C5_Step]_vars

\* a completed trip with a later trip of the same driver started after it
C5_Witness ==
    \E t1, t2 \in tripSessions :
        /\ t1.driverId = t2.driverId
        /\ t1.status = "completed"
        /\ t2.id > t1.id
        /\ t2.startedAt > t1.endedAt

\* parts of C6
C6_State ==
    \A u \in Callers, t \in tripSessions, q \in QrCodes :
        t.status = "completed" => Rejected(scanPassengerResult(u, t.id, q))

C6_Step ==
    \A t \in tripSessions :
        t.status = "completed" =>
            {s \in scans' : s.tripSessionId = t.id} = {s \in scans : s.tripSessionId = t.id}

\* C6: every scanPassenger call naming a completed trip is rejected, for any
\* caller and any QR code, and no step changes the Scan rows of a completed
\* trip.
C6_CompletedTripTakesNoScans == [][Changed => (C6_State /\ C6_State' /\ C6_Step)]_vars

\* the driver of a completed trip holds the code of a passenger of their
\* operator who was not checked in on it
C6_Witness ==
    \E u \in Users, t \in tripSessions, q \in QrCodes :
        /\ t.status = "completed"
        /\ t.driverId = u
        /\ requireDriverRole(u) = OK
        /\ \E p \in OwnPassengers(u, q) : ~ScannedOnTrip(t.id, p.id)
        /\ \E s \in scans : s.tripSessionId = t.id

\* parts of C7
OwnRoute(u, routeId) ==
    /\ requireDriverRole(u) = OK
    /\ \E r \in routes, m \in members :
          r.id = routeId /\ m.userId = u /\ m.operatorId = r.operatorId

HasActiveTrip(u) == \E t \in tripSessions : t.driverId = u /\ t.status = "active"

C7_State ==
    \A u \in Users, r \in RouteIds :
        /\ HasActiveTrip(u) => Rejected(startTripResult(u, r))
        /\ OwnRoute(u, r) =>
              startTripResult(u, r) =
                  IF HasActiveTrip(u)
                  THEN "You already have an active trip. End it first."
                  ELSE OK

C7_Step ==
    \A u \in Callers, r \in RouteIds :
        startTrip(u, r) =>
            IF HasActiveTrip(u)
            THEN tripSessions' = tripSessions
            ELSE startTripResult(u, r) = OK =>
                    \E t \in tripSessions' :
                        /\ t.driverId = u /\ t.status = "active"
                        /\ tripSessions' = tripSessions \cup {t}
                        /\ t \notin tripSessions

\* C7: startTrip by a driver who has an active trip is rejected, with the
\* Conflict message when the route is one of the driver's operator, and
\* inserts nothing; a driver without an active trip, with or without
\* completed ones, starts a trip on such a route.
C7_ConflictThenRestart == [][Changed => (C7_State /\ C7_State' /\ C7_Step)]_vars

\* a driver who ended a trip and started the next is refused a third
C7_Witness ==
    \E u \in Users, r \in RouteIds :
        /\ startTripResult(u, r) = "You already have an active trip. End it first."
        /\ \E t \in tripSessions : t.driverId = u /\ t.status = "completed"

\* ----------------------------------------------------------------------
\* Properties of invites, checked under SpecMembers
\* ----------------------------------------------------------------------
\* token k was handed out by createInvite
Issued(k) == k < nextId.invites
InviteUsed(k) == \E i \in invites : i.token = k /\ i.usedAt # Unset
InviteGone(k) == Issued(k) /\ \A i \in invites : i.token # k

\* C8 as stated: once an invite has been accepted, every later acceptInvite
\* call with its token by any user fails with "Invite already used".
C8_Original ==
    [][\A k \in InviteIds :
          InviteUsed(k) =>
              \A u \in Users : acceptInviteResult(u, k)' = "Invite already used"]_vars

\* parts of C8, amended
C8_State ==
    \A u \in Users, k \in InviteIds :
        /\ InviteUsed(k) => acceptInviteResult(u, k) = "Invite already used"
        /\ InviteGone(k) => acceptInviteResult(u, k) = "Invalid invite"

C8_Step ==
    /\ \A u \in Users, k \in InviteIds :
          (acceptInvite(u, k) /\ acceptInviteResult(u, k) = OK) => InviteUsed(k)'
    /\ \A k \in InviteIds :
          InviteUsed(k) => (InviteUsed(k)' \/ InviteGone(k)')
    /\ \A k \in InviteIds :
          InviteGone(k) => InviteGone(k)'
    /\ \A u \in Callers, k \in InviteIds :
          (acceptInvite(u, k) /\ (InviteUsed(k) \/ InviteGone(k))) => members' = members

\* C8, amended: once an invite has been accepted, every later acceptInvite
\* call with its token by any user is rejected and inserts no Member row:
\* with "Invite already used" while the invite row exists, and with "Invalid
\* invite" once deleteInvite has removed the row.
C8_TokenUsableOnce == [][Changed => (C8_State /\ C8_State' /\ C8_Step)]_vars

\* an invite was accepted and then deleted: a member who joined by invite
\* is there, an issued token has no row, and no remaining invite is used
C8_Witness ==
    /\ \E m \in members : m.role # "operator"
    /\ \E k \in InviteIds : InviteGone(k)
    /\ \A i \in invites : i.usedAt = Unset

\* parts of C9
C9_State ==
    \A u \in Callers, i \in invites :
        now > i.expiresAt => Rejected(acceptInviteResult(u, i.token))

C9_Step ==
    \A u \in Callers, k \in InviteIds :
        (acceptInvite(u, k) /\ \E i \in invites : i.token = k /\ now > i.expiresAt)
            => (members' = members /\ invites' = invites)

\* C9: acceptInvite at a time after the invite's expiresAt is rejected for
\* every caller, whether usedAt is set or not, and changes neither the
\* members nor the invites.
C9_ExpiredInviteRejected == [][Changed => (C9_State /\ C9_State' /\ C9_Step)]_vars

\* past their expiry: one invite that was accepted and one that never was
C9_Witness ==
    \E i1, i2 \in invites :
        /\ now > i1.expiresAt /\ i1.usedAt # Unset
        /\ now > i2.expiresAt /\ i2.usedAt = Unset
        /\ \E u \in Users : acceptInviteResult(u, i2.token) = "Invite expired"

\* parts of C10
JustMarked == {i \in invites : i.usedAt = Unset /\
                  \E j \in invites' : j.id = i.id /\ j.usedAt # Unset}
JustJoined == members' \ members

C10_Step ==
    /\ \A i \in JustMarked :
          /\ JustMarked = {i}
          /\ \E m \in JustJoined :
                JustJoined = {m} /\ m.operatorId = i.operatorId /\ m.role = i.role
    /\ \A m \in JustJoined : m.role # "operator" => JustMarked # {}
    /\ \A i \in invites, j \in invites' : (i.usedAt # Unset /\ j.id = i.id) => j = i
    /\ \A u1 \in Users, k \in InviteIds :
          (acceptInvite(u1, k) /\ acceptInviteResult(u1, k) = OK) =>
              \A u2 \in Users : acceptInviteResult(u2, k)' # OK

\* C10: of two acceptInvite calls with the same open token at most one
\* succeeds; a step sets the usedAt of an invite exactly when it inserts one
\* Member row with the invite's operator and role, and a usedAt that is set
\* is never written again.
C10_AtomicAccept == [][Changed => C10_Step]_vars

\* two users could both have taken the invite; one did, and the other is
\* still without a Member row
C10_Witness ==
    \E i \in invites, m \in members, u \in Users :
        /\ i.usedAt # Unset /\ i.expiresAt >= now
        /\ m.operatorId = i.operatorId /\ m.role = i.role
        /\ u # m.userId
        /\ \A m2 \in members : m2.userId # u
        /\ acceptInviteResult(u, i.token) = "Invite already used"

\* ----------------------------------------------------------------------
\* Properties of tenancy and membership, checked under SpecMembers
\* ----------------------------------------------------------------------
AlreadyMember == "You are already a member of an operator"
OpenInvite(i) == i.usedAt = Unset /\ i.expiresAt >= now
NewMembers == {m \in members' : \A q \in members : q.id # m.id}
GoneMembers == {m \in members : \A q \in members' : q.id # m.id}
NewOperators == {o \in operators' : \A q \in operators : q.id # o.id}

\* parts of C11
C11_State ==
    \A i \in invites : OpenInvite(i) =>
        \A u \in Users :
            /\ MembersByUser(u) # {} => acceptInviteResult(u, i.token) = AlreadyMember
            /\ MembersByUser(u) = {} => acceptInviteResult(u, i.token) = OK

C11_Step ==
    /\ \A m \in NewMembers :
          m.role # "operator" => \A q \in members : q.userId # m.userId
    /\ \A i \in JustMarked : \E m \in NewMembers :
          \A q \in members : q.userId # m.userId

\* C11: acceptInvite with an open invite (unused, not expired) by a user who
\* has a Member row fails with "You are already a member of an operator",
\* while a user without one can still accept it; no step marks an invite
\* used or inserts a Member row by invite for a user who had a Member row.
C11_AlreadyMemberRejected == [][Changed => (C11_State /\ C11_State' /\ C11_Step)]_vars

\* an invited member was turned away on a second, still open invite that a
\* third user can accept
C11_Witness ==
    \E i \in invites, m \in members, w \in Users :
        /\ OpenInvite(i)
        /\ m.role # "operator"
        /\ acceptInviteResult(m.userId, i.token) = AlreadyMember
        /\ acceptInviteResult(w, i.token) = OK

\* C12: in every reachable state there is at most one Member row per userId.
C12_OneMemberPerUser ==
    \A m1, m2 \in members : m1.userId = m2.userId => m1.id = m2.id

\* parts of C13
C13_State ==
    /\ \A o1, o2 \in operators : o1.slug = o2.slug => o1.id = o2.id
    /\ \A o1, o2 \in operators : o1.ownerId = o2.ownerId => o1.id = o2.id
    /\ \A u \in Users, s \in Slugs :
          /\ (\E o \in operators : o.slug = s)
                => createOperatorResult(u, s) = "Slug already taken"
          /\ ((\E o \in operators : o.ownerId = u) /\ ~(\E o \in operators : o.slug = s))
                => createOperatorResult(u, s) = "You already own an operator"

C13_Step ==
    /\ \A o \in NewOperators :
          /\ \A q \in operators : q.slug # o.slug /\ q.ownerId # o.ownerId
          /\ NewOperators = {o}
    /\ \A u \in Users, s \in Slugs :
          (createOperator(u, s) /\ createOperatorResult(u, s) # OK)
              => (operators' = operators /\ members' = members)

\* C13: create by an authenticated user fails with "Slug already taken" when
\* an Operator has the slug and with "You already own an operator" when the
\* caller owns one, and then inserts nothing; no two Operators share a slug
\* and no user owns two.
C13_CreateOperatorConflicts == [][Changed => (C13_State /\ C13_State' /\ C13_Step)]_vars

\* two operators exist, and the third user is refused a taken slug
C13_Witness ==
    /\ Cardinality(operators) = 2
    /\ \E u \in Users, s \in Slugs :
          /\ \A o \in operators : o.ownerId # u
          /\ createOperatorResult(u, s) = "Slug already taken"

FoundingMember(o) ==
    {m \in members : m.operatorId = o.id /\ m.userId = o.ownerId /\ m.role = "operator"}

\* C14: in every reachable state every Operator has a Member row with its
\* id as operatorId, its owner as userId and role operator.
C14_FoundingMemberKept ==
    \A o \in operators : FoundingMember(o) # {}

\* an operator whose only remaining member is the founding one, after a
\* member who had joined was removed, and whose owner is refused its removal
C14_Witness ==
    \E o \in operators :
        /\ {m \in members : m.operatorId = o.id} = FoundingMember(o)
        /\ Cardinality(members) < nextId.members - 1
        /\ \A m \in FoundingMember(o) :
              removeMemberResult(o.ownerId, m.id) = "Cannot remove the operator"

\* the caller holds a Member row with role operator in the operator of row t
OperatorOver(u, t) ==
    \E c \in members : c.userId = u /\ c.role = "operator" /\ c.operatorId = t.operatorId

\* parts of C15
C15_State ==
    \A u \in Callers, t \in members :
        (t.role = "operator" \/ ~OperatorOver(u, t)) => Rejected(removeMemberResult(u, t.id))

C15_Step ==
    /\ \A t \in GoneMembers :
          /\ GoneMembers = {t}
          /\ t.role # "operator"
          /\ \E u \in Users : OperatorOver(u, t) /\ removeMemberResult(u, t.id) = OK
    /\ \A u \in Callers, t \in members :
          (removeMember(u, t.id) /\ Rejected(removeMemberResult(u, t.id)))
              => members' = members

\* C15: removeMember is rejected when the target has role operator or the
\* caller holds no operator role in the target's operator, and then deletes
\* nothing; every step that deletes a Member row deletes exactly one row,
\* of a role other than operator, of an operator the caller runs.
C15_RemoveMemberGuards == [][Changed => (C15_State /\ C15_State' /\ C15_Step)]_vars

\* a member was removed before, and now an operator is refused the removal
\* of a member of the other operator
C15_Witness ==
    /\ Cardinality(members) < nextId.members - 1
    /\ \E u \in Users, t \in members :
          /\ t.role # "operator"
          /\ removeMemberResult(u, t.id) = "Cannot remove member from a different operator"

\* ----------------------------------------------------------------------
\* Properties of passenger records and tenant isolation, checked under
\* SpecPassengers
\* ----------------------------------------------------------------------
\* C16: when the owning business calls archive on a Passenger that is
\* already archived, the call succeeds and archivedAt keeps the value the
\* first call set.
C16_ArchiveIdempotent ==
    [][\A u \in Users, p \in passengers :
          (p.archivedAt # Unset /\ p.businessId = u /\ archivePassenger(u, p.id))
              => /\ archivePassengerResult(u, p.id) = OK
                 /\ \A q \in passengers' : q.id = p.id => q.archivedAt = p.archivedAt]_vars

Cursors   == 0..MaxPassengers
PageSizes == 1..MaxPassengers

\* C17: without includeArchived, list returns no Passenger whose archivedAt
\* is set, for any caller, operator, cursor and page size: it returns the
\* unarchived rows of the page it returns with includeArchived = true, which
\* is the page of the caller's index range as paginate gives it.
C17_ListHidesArchived ==
    \A u \in Callers, o \in OperatorIds, c \in Cursors, n \in PageSizes :
        /\ \A p \in passengersList(u, o, c, n, FALSE) : p.archivedAt = Unset
        /\ passengersList(u, o, c, n, FALSE) =
              {p \in passengersList(u, o, c, n, TRUE) : p.archivedAt = Unset}
        /\ passengersListResult(u, o) = OK =>
              passengersList(u, o, c, n, TRUE) =
                  Paginate(passengersListRange(u, o), c, n)

\* a business and the operator it belongs to both list a page holding an
\* archived and an unarchived passenger
C17_Witness ==
    \E b, w \in Users, o \in OperatorIds :
        /\ requireBusinessRole(b) = OK /\ requireOperatorRole(w) = OK
        /\ \A u \in {b, w} :
              /\ passengersListResult(u, o) = OK
              /\ Cardinality(passengersList(u, o, 0, 2, TRUE)) = 2
              /\ Cardinality(passengersList(u, o, 0, 2, FALSE)) = 1

MemberOf(u, operatorId) ==
    u # NoUser /\ \E m \in members : m.userId = u /\ m.operatorId = operatorId

\* C19: a read that returns a Route or a Passenger returns it only to an
\* authenticated caller who is a Member of the operator owning the row.
C19_ReadsNeedMembership ==
    \A u \in Callers :
        /\ \A r \in RouteIds : \A x \in routesGet(u, r) : MemberOf(u, x.operatorId)
        /\ \A p \in PassengerIds : \A x \in passengersGet(u, p) : MemberOf(u, x.operatorId)
        /\ \A o \in OperatorIds, c \in Cursors, n \in PageSizes, a \in BOOLEAN :
              \A x \in passengersList(u, o, c, n, a) : MemberOf(u, x.operatorId)
        /\ \A q \in QrCodes : \A x \in getByQrCode(u, q) : MemberOf(u, x.operatorId)

\* the operator of the caller's current Member row differs from operatorId,
\* or the caller has no Member row
OtherTenant(u, operatorId) ==
    u = NoUser \/ MembersByUser(u) = {} \/ Membership(u).operatorId # operatorId

\* C20: a mutation of a Passenger, a Route or an Invite is rejected when the
\* row's operatorId differs from the operatorId of the caller's Member row.
C20_MutationsStayInTenant ==
    \A u \in Callers :
        /\ \A r \in routes : OtherTenant(u, r.operatorId) =>
              Rejected(updateRouteResult(u, r.id)) /\ Rejected(removeRouteResult(u, r.id))
        /\ \A i \in invites : OtherTenant(u, i.operatorId) =>
              Rejected(deleteInviteResult(u, i.id))
        /\ \A p \in passengers : OtherTenant(u, p.operatorId) =>
              /\ Rejected(updatePassengerResult(u, p.id))
              /\ Rejected(archivePassengerResult(u, p.id))

\* ----------------------------------------------------------------------
\* Property of check-in across tenants, checked under SpecCross
\* ----------------------------------------------------------------------
\* C18: in every reachable state every Scan row links a TripSession and a
\* Passenger of the same operator.
C18_ScanWithinOneOperator ==
    \A s \in scans :
        \A t \in tripSessions, p \in passengers :
            (t.id = s.tripSessionId /\ p.id = s.passengerId) => t.operatorId = p.operatorId

\* ----------------------------------------------------------------------
\* Properties of the notification jobs, checked under SpecJobs
\* ----------------------------------------------------------------------
\* the jobs a step takes from pending to success or failed
JobsSettled ==
    {j \in scheduled : j.state = "pending" /\
        \E k \in scheduled' : k.id = j.id /\ k.state # "pending"}
\* the jobs a step enqueues
JobsEnqueued == {j \in scheduled' : \A k \in scheduled : k.id # j.id}

\* the row a job was enqueued for is in the store
JobRowStored(j) ==
    /\ j.fn = "sendInviteEmail" => \E i \in invites : i.token = j.key
    /\ j.fn = "sendTicketEmail" => \E p \in passengers : p.qrCode = j.key

\* parts of C21
C21_State == \A j \in scheduled : JobRowStored(j)

C21_Step ==
    JobsSettled # {} =>
        /\ UNCHANGED <<tables, nextId, now>>
        /\ \A j \in JobsSettled : JobRowStored(j)'

\* C21: a step in which a scheduled sendInviteEmail or sendTicketEmail job
\* ends, in success or in failure, changes none of the seven tables; the
\* Invite or Passenger the job was enqueued for is in the store before and
\* after, whatever the state of the job.
C21_JobOutcomeLeavesStore == [][Changed => (C21_State /\ C21_State' /\ C21_Step)]_vars

\* an invite email and a ticket email have both failed, and the invite and
\* the passenger are in the store
C21_Witness ==
    \E j1, j2 \in scheduled :
        /\ j1.fn = "sendInviteEmail" /\ j1.state = "failed" /\ JobRowStored(j1)
        /\ j2.fn = "sendTicketEmail" /\ j2.state = "failed" /\ JobRowStored(j2)

\* parts of C23
C23_Rejecting ==
    /\ \A u \in Callers, o \in OperatorIds, r \in InviteRoles :
          createInvite(u, o, r) => ~Rejected(createInviteResult(u, o))
    /\ \A u \in Callers, t \in InviteIds :
          acceptInvite(u, t) => ~Rejected(acceptInviteResult(u, t))
    /\ \A u \in Callers, o \in OperatorIds, n \in Names :
          createPassenger(u, o, n) => ~Rejected(createPassengerResult(u, o))
    /\ \A u \in Callers, p \in PassengerIds :
          resendTicketEmail(u, p) => ~Rejected(resendTicketEmailResult(u, p))

C23_Enqueuing ==
    \A j \in JobsEnqueued :
        /\ JobsEnqueued = {j}
        /\ j.state = "pending"
        /\ j.fn = "sendInviteEmail" =>
              \E i \in invites' : i.token = j.key /\ \A q \in invites : q.id # i.id
        /\ j.fn = "sendTicketEmail" =>
              \/ \E p \in passengers' : p.qrCode = j.key /\ \A q \in passengers : q.id # p.id
              \/ \E p \in passengers : p.qrCode = j.key /\ tables' = tables /\
                    requireBusinessRole(p.businessId) = OK

ScansOfTrip(tripId) == {s \in scans : s.tripSessionId = tripId}

\* the view lists exactly the Scan rows of its trip, in the order of their
\* insertion, each with its Passenger
ViewListsScans(view) ==
    /\ DOMAIN view.scans = 1..Cardinality(ScansOfTrip(view.trip.id))
    /\ {view.scans[k].scan : k \in DOMAIN view.scans} = ScansOfTrip(view.trip.id)
    /\ \A k, l \in DOMAIN view.scans :
          k < l => view.scans[k].scan.id < view.scans[l].scan.id
    /\ \A k \in DOMAIN view.scans :
          \E p \in passengers :
              p.id = view.scans[k].scan.passengerId /\ view.scans[k].passenger = {p}

\* the view is of the caller's one active trip
ViewOfActiveTrip(u, view) ==
    /\ view.trip \in tripSessions
    /\ view.trip.driverId = u /\ view.trip.status = "active"
    /\ \A t \in tripSessions :
          (t.driverId = u /\ t.status = "active") => t = view.trip

\* C22 as stated: getActiveTrip for a signed-in user returns none exactly
\* when the user has no active TripSession, and otherwise the user's single
\* active TripSession with its Route and its Scan rows, each with its
\* Passenger, in insertion order.
C22_Original ==
    \A u \in Users :
        /\ getActiveTrip(u) = <<>> <=> ~HasActiveTrip(u)
        /\ getActiveTrip(u) # <<>> =>
              /\ ViewOfActiveTrip(u, getActiveTrip(u)[1])
              /\ ViewListsScans(getActiveTrip(u)[1])
              /\ \E r \in routes :
                    r.id = getActiveTrip(u)[1].trip.routeId /\ getActiveTrip(u)[1].route = {r}

\* C22, amended: as stated, except that the view carries null in place of
\* the Route once routes.remove has deleted the Route of the trip.
C22_ActiveTripView ==
    \A u \in Users :
        /\ getActiveTrip(u) = <<>> <=> ~HasActiveTrip(u)
        /\ Len(getActiveTrip(u)) <= 1
        /\ getActiveTrip(u) # <<>> =>
              /\ ViewOfActiveTrip(u, getActiveTrip(u)[1])
              /\ ViewListsScans(getActiveTrip(u)[1])
              /\ \A r \in routes :
                    r.id = getActiveTrip(u)[1].trip.routeId => getActiveTrip(u)[1].route = {r}
              /\ (\A r \in routes : r.id # getActiveTrip(u)[1].trip.routeId)
                    => getActiveTrip(u)[1].route = {}

\* a driver with a completed trip and an active one that has a scan, whose
\* route has been deleted
C22_Witness ==
    \E u \in Users :
        /\ getActiveTrip(u) # <<>>
        /\ getActiveTrip(u)[1].route = {}
        /\ Len(getActiveTrip(u)[1].scans) >= 1
        /\ \E t \in tripSessions : t.driverId = u /\ t.status = "completed"

NewTrips == {t \in tripSessions' : \A q \in tripSessions : q.id # t.id}

\* the caller holds a Member row with role driver in the operator of a route
\* with that id
DriverOnRoute(u, routeId) ==
    \E m \in members, r \in routes :
        m.userId = u /\ m.role = "driver" /\ r.id = routeId /\ r.operatorId = m.operatorId

\* parts of C24
C24_State ==
    /\ \A u \in Callers, r \in RouteIds :
          (u = NoUser \/ ~DriverOnRoute(u, r)) => Rejected(startTripResult(u, r))
    /\ \A t \in tripSessions, r \in routes :
          r.id = t.routeId => r.operatorId = t.operatorId

C24_Step ==
    \A t \in NewTrips :
        /\ NewTrips = {t}
        /\ t.status = "active" /\ t.endedAt = Unset /\ t.startedAt = now
        /\ DriverOnRoute(t.driverId, t.routeId)
        /\ \E r \in routes : r.id = t.routeId /\ r.operatorId = t.operatorId
        /\ startTrip(t.driverId, t.routeId)

\* C24: startTrip is rejected for a caller who is not signed in or holds no
\* driver Member row in the operator of an existing route with the given
\* id; every step that inserts a TripSession inserts one row, with status
\* active, the caller as driverId and the operatorId of its route.
C24_StartTripPreconditions == [][Changed => (C24_State /\ C24_State' /\ C24_Step)]_vars

\* a trip of operator 1 exists, and a driver of operator 2 is refused its
\* route
C24_Witness ==
    /\ tripSessions # {}
    /\ \E u \in Users, r \in RouteIds :
          startTripResult(u, r) = "Cannot start trip for a different operator's route"

HoldsDriverRole(u) == \E m \in members : m.userId = u /\ m.role = "driver"

\* parts of C29
C29_State ==
    \A t \in tripSessions :
        (t.status = "active" /\ ~HoldsDriverRole(t.driverId))
            => \A u \in Callers : Rejected(endTripResult(u, t.id))

C29_Step ==
    /\ \A m \in GoneMembers :
          /\ members' = members \ {m}
          /\ UNCHANGED <<operators, routes, passengers, tripSessions, scans, invites,
                         nextId, scheduled, now>>
    /\ \A t \in tripSessions, q \in tripSessions' :
          (q.id = t.id /\ t.status = "active" /\ q.status = "completed")
              => HoldsDriverRole(t.driverId)

\* C29: a step that deletes a Member row deletes that row alone and changes
\* no TripSession, Scan, Passenger or Invite; an active trip whose driver
\* holds no Member row with role driver cannot be ended by any caller, and
\* every step that completes a trip is taken while its driver holds one.
C29_RemoveMemberLeavesTrips == [][Changed => (C29_State /\ C29_State' /\ C29_Step)]_vars

\* a driver was removed with a trip still active, joined the other
\* operator as a driver and can end the trip now
C29_Witness ==
    \E t \in tripSessions, m \in members :
        /\ t.status = "active"
        /\ m.userId = t.driverId /\ m.role = "driver" /\ m.operatorId # t.operatorId
        /\ endTripResult(t.driverId, t.id) = OK

\* ----------------------------------------------------------------------
\* Further properties of tenancy and invites, checked under SpecMembers
\* ----------------------------------------------------------------------
OperatorMembers(o) == {m \in members : m.operatorId = o.id /\ m.role = "operator"}

\* parts of C26
C26_State ==
    /\ \A o \in operators :
          /\ Cardinality(OperatorMembers(o)) = 1
          /\ \A m \in OperatorMembers(o) : m.userId = o.ownerId
    /\ \A i \in invites : i.role \in {"driver", "business"}

C26_Step ==
    /\ \A m \in members, q \in members' : q.id = m.id => q.role = m.role
    /\ \A m \in NewMembers :
          m.role = "operator" <=> \E o \in NewOperators : o.id = m.operatorId

\* C26: in every reachable state each Operator has exactly one Member with
\* role operator, and it is the owner's; every Invite has role driver or
\* business; no step changes the role of a Member row, and a Member row
\* with role operator is inserted only together with its Operator.
C26_OneOperatorMember == [][Changed => (C26_State /\ C26_State' /\ C26_Step)]_vars

\* an operator with its owner and two invited members, a driver and a business
C26_Witness ==
    \E o \in operators :
        /\ \E m \in members : m.operatorId = o.id /\ m.role = "driver"
        /\ \E m \in members : m.operatorId = o.id /\ m.role = "business"
        /\ Cardinality(OperatorMembers(o)) = 1

InviteFailures == {"Invalid invite", "Invite already used", "Invite expired"}

\* C28: in every state getInviteByToken(token) returns null exactly when
\* acceptInvite(token) by a signed-in user fails as invalid, already used or
\* expired; an unused invite whose expiresAt equals the current time is
\* returned by the one and not turned away as expired by the other.
C28_QueryAgreesWithAccept ==
    /\ \A u \in Users, k \in InviteIds :
          getInviteByToken(k) = <<>> <=> acceptInviteResult(u, k) \in InviteFailures
    /\ \A u \in Users, i \in invites :
          (i.usedAt = Unset /\ i.expiresAt = now) =>
              /\ getInviteByToken(i.token) # <<>>
              /\ getInviteByToken(i.token)[1].invite = i
              /\ acceptInviteResult(u, i.token) \notin InviteFailures

\* the clock reads exactly the expiresAt of an unused invite, which a user
\* can still accept, while another invite has been used
C28_Witness ==
    \E i, j \in invites, u \in Users :
        /\ i.usedAt = Unset /\ i.expiresAt = now
        /\ acceptInviteResult(u, i.token) = OK
        /\ j.usedAt # Unset /\ getInviteByToken(j.token) = <<>>

\* C27: in every reachable state a TripSession has endedAt set if and only
\* if its status is completed, and a set endedAt is not earlier than
\* startedAt.
C27_EndedAtIffCompleted ==
    \A t \in tripSessions :
        /\ t.endedAt # Unset <=> t.status = "completed"
        /\ t.endedAt # Unset => t.endedAt >= t.startedAt

\* a trip ended at a later clock reading than it started, next to an active
\* one
C27_Witness ==
    \E t1, t2 \in tripSessions :
        /\ t1.status = "completed" /\ t1.endedAt > t1.startedAt
        /\ t2.status = "active" /\ t2.endedAt = Unset

\* ----------------------------------------------------------------------
\* The owning driver, checked under SpecCrew
\* ----------------------------------------------------------------------
ScanReturns == {"success", "already_scanned"}

\* parts of C25
C25_State ==
    /\ \A s \in scans : \E t \in tripSessions :
          t.id = s.tripSessionId /\ s.scannedBy = t.driverId
    /\ \A t \in tripSessions, u \in Callers : u # t.driverId =>
          /\ endTripResult(u, t.id) # OK
          /\ \A q \in QrCodes : scanPassengerResult(u, t.id, q) \notin ScanReturns
          /\ requireDriverRole(u) = OK =>
                /\ endTripResult(u, t.id) = "Cannot end another driver's trip"
                /\ \A q \in QrCodes :
                      scanPassengerResult(u, t.id, q) = "Cannot scan for another driver's trip"

C25_Step ==
    /\ \A t \in tripSessions : \E q \in tripSessions' :
          /\ q.id = t.id /\ q.driverId = t.driverId
          /\ q # t => endTripResult(t.driverId, t.id) = OK
    /\ scans \subseteq scans'
    /\ \A s \in scans' \ scans : \E t \in tripSessions :
          /\ t.id = s.tripSessionId /\ s.scannedBy = t.driverId
          /\ \E q \in QrCodes : /\ scanPassengerResult(t.driverId, t.id, q) = "success"
                                /\ s = NewScan(t.driverId, t.id, q)

\* C25: endTrip and scanPassenger change a TripSession or its Scans only for
\* the caller who is the trip's driverId: for every other caller, a driver
\* of the same or of another operator included, both fail, every step that
\* changes a trip or adds a Scan to it is one its own driver could take, and
\* every Scan has scannedBy equal to the driverId of its TripSession.
C25_OnlyOwningDriver == [][Changed => (C25_State /\ C25_State' /\ C25_Step)]_vars

\* two drivers of one operator, each with an active trip and a scan of
\* their own, each turned away from the other's trip
C25_Witness ==
    \E t1, t2 \in tripSessions :
        /\ t1.driverId # t2.driverId
        /\ t1.status = "active" /\ t2.status = "active"
        /\ t1.operatorId = t2.operatorId
        /\ \E s \in scans : s.tripSessionId = t1.id /\ s.scannedBy = t1.driverId
        /\ \E s \in scans : s.tripSessionId = t2.id /\ s.scannedBy = t2.driverId
        /\ endTripResult(t1.driverId, t2.id) = "Cannot end another driver's trip"
        /\ \E q \in QrCodes :
              scanPassengerResult(t2.driverId, t1.id, q) = "Cannot scan for another driver's trip"

\* ----------------------------------------------------------------------
\* Archived passengers at the door, checked under SpecArchive
\* ----------------------------------------------------------------------
\* the step changes nothing but the archivedAt of passengers
ArchivedAtOnly ==
    /\ passengers' # passengers
    /\ \A p \in passengers : [p EXCEPT !.archivedAt = Unset] \in
                             {[q EXCEPT !.archivedAt = Unset] : q \in passengers'}
    /\ Cardinality(passengers') = Cardinality(passengers)
    /\ UNCHANGED <<operators, members, routes, tripSessions, scans, invites, nextId>>

\* C30: between two states that differ only in the archivedAt of passengers,
\* every scanPassenger call has the same result, and where it is success
\* inserts the same Scan row; an archived passenger's QR code is accepted.
C30_ScanIgnoresArchivedAt ==
    [][ArchivedAtOnly =>
          \A u \in Callers, t \in TripIds, q \in QrCodes :
              /\ scanPassengerResult(u, t, q)' = scanPassengerResult(u, t, q)
              /\ scanPassengerResult(u, t, q) = "success" =>
                    NewScan(u, t, q)' = NewScan(u, t, q)]_vars

\* an archived passenger whose QR code checks in on an active trip, and has
\* checked in on an earlier one
C30_Witness ==
    \E p \in passengers, t \in tripSessions :
        /\ p.archivedAt # Unset
        /\ t.status = "active" /\ t.startedAt > p.archivedAt
        /\ scanPassengerResult(t.driverId, t.id, p.qrCode) = "success"
        /\ \E s \in scans : s.passengerId = p.id /\ s.tripSessionId # t.id
====
